---- MODULE Spec2Model ----
(***************************************************************************)
(* The priority task runner of apps/agent-services/task_runners/service.py *)
(* (Task, TaskQueue, TaskRunner) as a state machine.                       *)
(*                                                                         *)
(* The runner lives on one asyncio event loop, so a coroutine runs without *)
(* interruption from one suspension point to the next.  The suspension     *)
(* points of the code are: asyncio.sleep(0.1) inside TaskQueue.get (all    *)
(* lanes empty), the await of the task's work inside _execute_task, and    *)
(* the await of asyncio.gather inside stop().  queue.put and queue.get on  *)
(* an unbounded, non-empty asyncio.Queue do not suspend.  Each action      *)
(* below is one such uninterrupted segment.                                *)
(***************************************************************************)
EXTENDS Integers, Sequences, FiniteSets, TLC

\* ------------------------------------------------------------------ bounds
MaxTasks == 2        \* submit_task is called at most this many times (guard in Next)
MaxRetriesArg == 1   \* submit_task's max_retries argument is drawn from 0..MaxRetriesArg
PoolSize == 2        \* the max_workers the runner is constructed with
MaxSlots == 2        \* worker coroutines that can exist at once
MaxTime == 2         \* the clock readings are 1..MaxTime
MaxLimit == 3        \* get_completed_tasks' limit argument is drawn from -1..MaxLimit

\* ------------------------------------------------------------- enumerations
\* class TaskStatus
PENDING == "pending"
RUNNING == "running"
COMPLETED == "completed"
FAILED == "failed"
CANCELLED == "cancelled"
RETRYING == "retrying"
TaskStatus == {PENDING, RUNNING, COMPLETED, FAILED, CANCELLED, RETRYING}
Terminal == {COMPLETED, FAILED, CANCELLED}

\* class TaskPriority
LOW == "low"
MEDIUM == "medium"
HIGH == "high"
URGENT == "urgent"
TaskPriority == {LOW, MEDIUM, HIGH, URGENT}

\* the order in which TaskQueue.get scans the lanes
ScanOrderReversed == <<LOW, MEDIUM, HIGH, URGENT>>
ScanOrderWithoutLow == <<URGENT, HIGH, MEDIUM>>
ScanOrder == <<URGENT, HIGH, MEDIUM, LOW>>

\* the rank the specification gives the priorities (Urgent highest)
Rank(p) == CASE p = URGENT -> 4 [] p = HIGH -> 3 [] p = MEDIUM -> 2 [] p = LOW -> 1

None == 0            \* Optional[...] = None; timestamps and results are >= 1
NoTask == 0          \* a worker that holds no task; task ids are >= 1
Slots == 1..MaxSlots

VARIABLES
    max_workers,      \* TaskRunner.max_workers
    tasks,            \* the Task objects, by id: a sequence, id = index
    queues,           \* TaskQueue.queues: lane -> sequence of task ids
    active_tasks,     \* TaskRunner.active_tasks: the keys (the values are tasks[id])
    completed_tasks,  \* TaskRunner.completed_tasks: the keys
    completed_order,  \* the keys of that dict in its iteration (insertion) order
    workers,          \* TaskRunner.workers: the worker coroutines in the list
    is_running,       \* TaskRunner.is_running
    wk,               \* the worker coroutines: slot -> [pc, task, cancel]
    stop_pc,          \* a stop() call suspended in gather: "idle" or "gather"
    gather,           \* the workers that call is waiting for
    now,              \* datetime.utcnow(); only Tick advances the clock
    ret,              \* what the last cancel_task call returned
    metrics,          \* metrics.metrics: tasks_queued_<p> and tasks_dequeued_<p>
    hist,             \* history, by task id (not program state)
    last_get,         \* history: the last TaskQueue.get that returned
    reply,            \* what the query called in the last step returned to its caller
    refused,          \* history: the ids cancel_task refused while queued, never dequeued
    carried,          \* history: whether stop() stopped the runner, and the ids queued at the restart
    migration_tasks,      \* the MigrationTask objects and their coroutines, by id
    migration_active,     \* MigrationAgentService.active_tasks: the keys
    migration_completed,  \* MigrationAgentService.completed_tasks: the keys
    migration_ret,        \* what the last cancel_migration call returned
    migration_cancelled   \* history: the ids for which cancel_migration returned true

vars == <<max_workers, tasks, queues, active_tasks, completed_tasks, completed_order, workers, is_running,
          wk, stop_pc, gather, now, ret, metrics, hist, last_get, reply, refused, carried,
          migration_tasks, migration_active, migration_completed, migration_ret,
          migration_cancelled>>

\* the caller's side of a step: the program's actions below do not mention it
caller == <<reply, refused, carried>>

\* the MigrationAgentService, a separate object: the runner does not mention it
migration == <<migration_tasks, migration_active, migration_completed, migration_ret,
               migration_cancelled>>

TaskIds == 1..Len(tasks)
Queued(q) == UNION {{q[p][i] : i \in 1..Len(q[p])} : p \in TaskPriority}
DeadWorker == [pc |-> "dead", task |-> NoTask, cancel |-> FALSE]
Live == {w \in Slots : wk[w].pc # "dead"}

EmptyQueues == [p \in TaskPriority |-> <<>>]
NoHeads == [p \in TaskPriority |-> NoTask]
NoReply == [call |-> "none", arg |-> NoTask, value |-> <<>>]

\* TaskRunner.__init__, TaskQueue.__init__ and MigrationAgentService.__init__
Init ==
    /\ max_workers = PoolSize
    /\ tasks = <<>>
    /\ queues = EmptyQueues
    /\ active_tasks = {}
    /\ completed_tasks = {}
    /\ completed_order = <<>>
    /\ workers = {}
    /\ is_running = FALSE
    /\ wk = [w \in Slots |-> DeadWorker]
    /\ stop_pc = "idle"
    /\ gather = {}
    /\ now = 1
    /\ ret = "none"
    /\ metrics = [queued |-> [p \in TaskPriority |-> 0],
                  dequeued |-> [p \in TaskPriority |-> 0]]
    /\ hist = <<>>
    /\ last_get = [task |-> NoTask, heads |-> NoHeads, waited |-> FALSE]
    /\ reply = NoReply
    /\ refused = {}
    /\ carried = [stops |-> 0, ids |-> {}]
    /\ migration_tasks = <<>>
    /\ migration_active = {}
    /\ migration_completed = {}
    /\ migration_ret = "none"
    /\ migration_cancelled = {}

\* ------------------------------------------------------------- TaskQueue
\* asyncio.Queue.put on an unbounded queue: append at the back
TaskQueue_put_front(q, t, p) == [q EXCEPT ![p] = <<t>> \o @]
TaskQueue_put(q, t, p) == [q EXCEPT ![p] = Append(@, t)]

\* the scan of TaskQueue.get: the first lane of ScanOrder that is not empty,
\* "none" when every lane is empty
RECURSIVE ScanFrom(_, _)
ScanFrom(q, i) ==
    IF i > Len(ScanOrder) THEN "none"
    ELSE IF q[ScanOrder[i]] # <<>> THEN ScanOrder[i]
    ELSE ScanFrom(q, i + 1)
RECURSIVE ScanBack(_, _)
ScanBack(q, i) ==
    IF i < 1 THEN "none"
    ELSE IF q[ScanOrder[i]] # <<>> THEN ScanOrder[i]
    ELSE ScanBack(q, i - 1)
TaskQueue_get_lane_backwards(q) == ScanBack(q, Len(ScanOrder))
TaskQueue_get_lane(q) == ScanFrom(q, 1)

\* the fronts of the lanes (history: what a get saw)
Heads(q) == [p \in TaskPriority |-> IF q[p] = <<>> THEN NoTask ELSE Head(q[p])]

\* ----------------------------------------------------------------- worker
\* the work of a task that returns: example_sync_task, called as add(2, 3)
example_sync_task(x, y) == x + y

\* _execute_task, lines 192-194: the work returned
execute_task_return_without_result(T) ==
    [T EXCEPT !.status = COMPLETED, !.completed_at = now]
execute_task_return(T) ==
    [T EXCEPT !.result = example_sync_task(2, 3), !.status = COMPLETED, !.completed_at = now]

\* _execute_task, lines 199-215: the work raised
execute_task_except_off_by_one(T) ==
    LET r == T.retries + 1 IN
    IF r < T.max_retries
    THEN [T EXCEPT !.error = "message", !.retries = r, !.status = RETRYING]
    ELSE [T EXCEPT !.error = "message", !.retries = r, !.status = FAILED,
                   !.completed_at = now]
execute_task_except_one_more(T) ==
    LET r == T.retries + 1 IN
    IF r <= T.max_retries + 1
    THEN [T EXCEPT !.error = "message", !.retries = r, !.status = RETRYING]
    ELSE [T EXCEPT !.error = "message", !.retries = r, !.status = FAILED,
                   !.completed_at = now]
execute_task_except_uncounted(T) ==
    IF T.retries + 1 <= T.max_retries
    THEN [T EXCEPT !.error = "message", !.status = RETRYING]
    ELSE [T EXCEPT !.error = "message", !.retries = @ + 1, !.status = FAILED,
                   !.completed_at = now]
execute_task_except(T) ==
    LET r == T.retries + 1 IN
    IF r <= T.max_retries
    THEN [T EXCEPT !.error = "message", !.retries = r, !.status = RETRYING]
    ELSE [T EXCEPT !.error = "message", !.retries = r, !.status = FAILED,
                   !.completed_at = now]

\* _worker line 157 (TaskQueue.get, one scan) and, when it returns a task,
\* lines 160-163 and _execute_task lines 180-190 up to the await of the work.
\* T, Q, A, M, H: tasks, queues, active_tasks, metrics and hist as the caller
\* left them; waited: the scan follows a sleep of get's second loop.
GetAndExecute(w, T, Q, A, M, H, waited) ==
    LET p == TaskQueue_get_lane(Q) IN
    IF p = "none"
    THEN /\ wk' = [wk EXCEPT ![w] = [pc |-> "sleeping", task |-> NoTask, cancel |-> FALSE]]
         /\ tasks' = T
         /\ queues' = Q
         /\ active_tasks' = A
         /\ metrics' = M
         /\ hist' = H
         /\ UNCHANGED last_get
    ELSE LET t == Head(Q[p]) IN
         /\ queues' = [Q EXCEPT ![p] = Tail(@)]
         /\ metrics' = [M EXCEPT !.dequeued[p] = @ + 1]
         /\ active_tasks' = A \cup {t}
         /\ tasks' = [T EXCEPT ![t].status = RUNNING, ![t].started_at = now]
         /\ hist' = [H EXCEPT ![t].attempts = @ + 1]
         /\ last_get' = [task |-> t, heads |-> Heads(Q), waited |-> waited]
         /\ wk' = [wk EXCEPT ![w] = [pc |-> "working", task |-> t, cancel |-> FALSE]]

\* self.completed_tasks[task.id] = task (line 167): a new key goes to the end of
\* the dict's iteration order, a key already there keeps its place
dict_setitem(order, k) ==
    IF \E i \in 1..Len(order) : order[i] = k THEN order ELSE Append(order, k)

\* _worker line 154, the loop condition, then the body
LoopTop(w, T, Q, A, M, H) ==
    IF is_running
    THEN GetAndExecute(w, T, Q, A, M, H, FALSE)
    ELSE /\ wk' = [wk EXCEPT ![w] = DeadWorker]
         /\ tasks' = T
         /\ queues' = Q
         /\ active_tasks' = A
         /\ metrics' = M
         /\ hist' = H
         /\ UNCHANGED last_get

\* a worker created by start() runs for the first time
WorkerFirstRun(w) ==
    /\ wk[w].pc = "fresh"
    /\ ~wk[w].cancel
    /\ LoopTop(w, tasks, queues, active_tasks, metrics, hist)
    /\ UNCHANGED <<max_workers, completed_tasks, completed_order, workers, is_running, stop_pc, gather, now, ret>>

\* a worker wakes from asyncio.sleep(0.1) in TaskQueue.get (line 105) and scans again
WorkerWake(w) ==
    /\ wk[w].pc = "sleeping"
    /\ ~wk[w].cancel
    /\ GetAndExecute(w, tasks, queues, active_tasks, metrics, hist, TRUE)
    /\ UNCHANGED <<max_workers, completed_tasks, completed_order, workers, is_running, stop_pc, gather, now, ret>>

\* the work a worker awaits returns: _execute_task lines 192-197, _worker lines
\* 166-168, then the next iteration of the loop
WorkReturns(w) ==
    /\ wk[w].pc = "working"
    /\ ~wk[w].cancel
    /\ LET t == wk[w].task
           T == [tasks EXCEPT ![t] = execute_task_return(@)]
       IN /\ completed_tasks' = completed_tasks \cup {t}
          /\ completed_order' = dict_setitem(completed_order, t)
          /\ LoopTop(w, T, queues, active_tasks \ {t}, metrics, hist)
    /\ UNCHANGED <<max_workers, workers, is_running, stop_pc, gather, now, ret>>

\* the work a worker awaits raises: _execute_task lines 199-215 (with the put of
\* line 208 when retries remain), _worker lines 166-168, then the next iteration
WorkRaises_kills_worker(w) ==
    /\ wk[w].pc = "working"
    /\ ~wk[w].cancel
    /\ LET t == wk[w].task
           T == [tasks EXCEPT ![t] = execute_task_except(@)]
           requeue == T[t].status = RETRYING
       IN /\ tasks' = T
          /\ queues' = IF requeue THEN TaskQueue_put(queues, t, T[t].priority) ELSE queues
          /\ metrics' = IF requeue THEN [metrics EXCEPT !.queued[T[t].priority] = @ + 1]
                        ELSE metrics
          /\ hist' = IF requeue THEN [hist EXCEPT ![t].ticket = metrics.queued[T[t].priority] + 1]
                     ELSE hist
          /\ completed_tasks' = completed_tasks \cup {t}
          /\ completed_order' = dict_setitem(completed_order, t)
          /\ active_tasks' = active_tasks \ {t}
          /\ wk' = [wk EXCEPT ![w] = DeadWorker]
    /\ UNCHANGED <<max_workers, workers, is_running, stop_pc, gather, now, ret, last_get>>
WorkRaises_retry_first(w) ==
    /\ wk[w].pc = "working"
    /\ ~wk[w].cancel
    /\ LET t == wk[w].task
           T == [tasks EXCEPT ![t] = execute_task_except(@)]
           requeue == T[t].status = RETRYING
           Q == IF requeue THEN TaskQueue_put_front(queues, t, T[t].priority) ELSE queues
           M == IF requeue THEN [metrics EXCEPT !.queued[T[t].priority] = @ + 1]
                ELSE metrics
           H == IF requeue THEN [hist EXCEPT ![t].ticket = M.queued[T[t].priority]]
                ELSE hist
       IN /\ completed_tasks' = completed_tasks \cup {t}
          /\ completed_order' = dict_setitem(completed_order, t)
          /\ LoopTop(w, T, Q, active_tasks \ {t}, M, H)
    /\ UNCHANGED <<max_workers, workers, is_running, stop_pc, gather, now, ret>>
WorkRaises_requeues_failed(w) ==
    /\ wk[w].pc = "working"
    /\ ~wk[w].cancel
    /\ LET t == wk[w].task
           T == [tasks EXCEPT ![t] = execute_task_except(@)]
           requeue == T[t].status \in {RETRYING, FAILED}
           Q == IF requeue THEN TaskQueue_put(queues, t, T[t].priority) ELSE queues
           M == IF requeue THEN [metrics EXCEPT !.queued[T[t].priority] = @ + 1]
                ELSE metrics
           H == IF requeue THEN [hist EXCEPT ![t].ticket = M.queued[T[t].priority]]
                ELSE hist
       IN /\ completed_tasks' = completed_tasks \cup {t}
          /\ completed_order' = dict_setitem(completed_order, t)
          /\ LoopTop(w, T, Q, active_tasks \ {t}, M, H)
    /\ UNCHANGED <<max_workers, workers, is_running, stop_pc, gather, now, ret>>
WorkRaises(w) ==
    /\ wk[w].pc = "working"
    /\ ~wk[w].cancel
    /\ LET t == wk[w].task
           T == [tasks EXCEPT ![t] = execute_task_except(@)]
           requeue == T[t].status = RETRYING
           Q == IF requeue THEN TaskQueue_put(queues, t, T[t].priority) ELSE queues
           M == IF requeue THEN [metrics EXCEPT !.queued[T[t].priority] = @ + 1]
                ELSE metrics
           H == IF requeue THEN [hist EXCEPT ![t].ticket = M.queued[T[t].priority]]
                ELSE hist
       IN /\ completed_tasks' = completed_tasks \cup {t}
          /\ completed_order' = dict_setitem(completed_order, t)
          /\ LoopTop(w, T, Q, active_tasks \ {t}, M, H)
    /\ UNCHANGED <<max_workers, workers, is_running, stop_pc, gather, now, ret>>

\* an Exception that is not the work's reaches the loop body of _worker (raised
\* in TaskQueue.get, or inside _execute_task outside its try block and passed on
\* by monitor_performance): line 172 catches it, line 173 logs it, lines 160-168
\* that were not reached yet are skipped, so a task the worker held stays in the
\* active table as it is, and the loop goes on with its next iteration
WorkerLoopError_kills_worker(w) ==
    /\ wk[w].pc \in {"sleeping", "working"}
    /\ ~wk[w].cancel
    /\ wk' = [wk EXCEPT ![w] = DeadWorker]
    /\ UNCHANGED <<max_workers, tasks, queues, active_tasks, completed_tasks, completed_order,
                   workers, is_running, stop_pc, gather, now, ret, metrics, hist, last_get>>
WorkerLoopError(w) ==
    /\ wk[w].pc \in {"sleeping", "working"}
    /\ ~wk[w].cancel
    /\ LoopTop(w, tasks, queues, active_tasks, metrics, hist)
    /\ UNCHANGED <<max_workers, completed_tasks, completed_order, workers, is_running, stop_pc,
                   gather, now, ret>>

\* a worker that stop() cancelled (line 142) is resumed with CancelledError at its
\* suspension point.  CancelledError is a BaseException: neither
\* monitor_performance nor _execute_task (except Exception) catches it, line 170
\* does, and the worker leaves the loop.  A task it held stays where it is.
WorkerCancelled_drops_task(w) ==
    /\ wk[w].pc # "dead"
    /\ wk[w].cancel
    /\ wk' = [wk EXCEPT ![w] = DeadWorker]
    /\ active_tasks' = active_tasks \ {wk[w].task}
    /\ UNCHANGED <<max_workers, tasks, queues, completed_tasks, completed_order, workers, is_running,
                   stop_pc, gather, now, ret, metrics, hist, last_get>>
WorkerCancelled(w) ==
    /\ wk[w].pc # "dead"
    /\ wk[w].cancel
    /\ wk' = [wk EXCEPT ![w] = DeadWorker]
    /\ UNCHANGED <<max_workers, tasks, queues, active_tasks, completed_tasks, completed_order, workers, is_running,
                   stop_pc, gather, now, ret, metrics, hist, last_get>>

\* --------------------------------------------------------------- TaskRunner
RECURSIVE Lowest(_, _)
Lowest(S, k) ==
    IF k = 0 \/ S = {} THEN {}
    ELSE LET m == CHOOSE x \in S : \A y \in S : x <= y
         IN {m} \cup Lowest(S \ {m}, k - 1)
FreeSlots == {w \in Slots : wk[w].pc = "dead" /\ w \notin workers}

start_one_short ==
    /\ IF is_running
       THEN UNCHANGED <<is_running, wk, workers>>
       ELSE LET new == Lowest(FreeSlots, max_workers - 1) IN
            /\ Cardinality(FreeSlots) >= max_workers
            /\ is_running' = TRUE
            /\ wk' = [w \in Slots |->
                        IF w \in new
                        THEN [pc |-> "fresh", task |-> NoTask, cancel |-> FALSE]
                        ELSE wk[w]]
            /\ workers' = workers \cup new
    /\ UNCHANGED <<max_workers, tasks, queues, active_tasks, completed_tasks, completed_order, stop_pc, gather,
                   now, ret, metrics, hist, last_get>>

\* TaskRunner.start.  The guard of the spawning branch is the bound on worker
\* coroutines: with MaxSlots = max_workers a start() that spawns comes after the
\* pending stop() has returned, so start() and stop() calls follow one another.
start_unless_leftovers ==
    /\ IF is_running
       THEN UNCHANGED <<is_running, wk, workers>>
       ELSE LET new == Lowest(FreeSlots, max_workers) IN
            /\ Cardinality(FreeSlots) >= max_workers
            /\ is_running' = (active_tasks = {})
            /\ wk' = [w \in Slots |->
                        IF w \in new
                        THEN [pc |-> "fresh", task |-> NoTask, cancel |-> FALSE]
                        ELSE wk[w]]
            /\ workers' = workers \cup new
    /\ UNCHANGED <<max_workers, tasks, queues, active_tasks, completed_tasks, completed_order, stop_pc, gather,
                   now, ret, metrics, hist, last_get>>
start ==
    /\ IF is_running
       THEN UNCHANGED <<is_running, wk, workers>>
       ELSE LET new == Lowest(FreeSlots, max_workers) IN
            /\ Cardinality(FreeSlots) >= max_workers
            /\ is_running' = TRUE
            /\ wk' = [w \in Slots |->
                        IF w \in new
                        THEN [pc |-> "fresh", task |-> NoTask, cancel |-> FALSE]
                        ELSE wk[w]]
            /\ workers' = workers \cup new
    /\ UNCHANGED <<max_workers, tasks, queues, active_tasks, completed_tasks, completed_order, stop_pc, gather,
                   now, ret, metrics, hist, last_get>>

\* TaskRunner.stop up to the await of gather (lines 135-145); gather of no
\* worker does not suspend, and the call runs to its end.  One stop() call is
\* pending at a time.
stop ==
    /\ stop_pc = "idle"
    /\ IF ~is_running
       THEN UNCHANGED <<is_running, wk, workers, stop_pc, gather>>
       ELSE /\ is_running' = FALSE
            /\ wk' = [w \in Slots |->
                        IF w \in workers /\ wk[w].pc # "dead"
                        THEN [wk[w] EXCEPT !.cancel = TRUE]
                        ELSE wk[w]]
            /\ IF workers = {}
               THEN UNCHANGED <<workers, stop_pc, gather>>
               ELSE /\ stop_pc' = "gather"
                    /\ gather' = workers
                    /\ UNCHANGED workers
    /\ UNCHANGED <<max_workers, tasks, queues, active_tasks, completed_tasks, completed_order, now, ret, metrics,
                   hist, last_get>>

\* TaskRunner.stop after gather: every awaited worker is done (lines 147-148)
stop_return_without_waiting ==
    /\ stop_pc = "gather"
    /\ workers' = {}
    /\ stop_pc' = "idle"
    /\ gather' = {}
    /\ UNCHANGED <<max_workers, tasks, queues, active_tasks, completed_tasks, completed_order, is_running, wk, now,
                   ret, metrics, hist, last_get>>
stop_return ==
    /\ stop_pc = "gather"
    /\ \A w \in gather : wk[w].pc = "dead"
    /\ workers' = {}
    /\ stop_pc' = "idle"
    /\ gather' = {}
    /\ UNCHANGED <<max_workers, tasks, queues, active_tasks, completed_tasks, completed_order, is_running, wk, now,
                   ret, metrics, hist, last_get>>

\* Task(...) as submit_task constructs it (lines 229-237 and the dataclass defaults)
NewTask(priority, max_retries) ==
    [priority |-> priority, status |-> PENDING, created_at |-> now,
     started_at |-> None, completed_at |-> None, result |-> None, error |-> "none",
     retries |-> 0, max_retries |-> max_retries]

\* TaskRunner.submit_task; generate_task_id gives an id no task has
submit_task_default_lane(priority, max_retries) ==
    /\ LET task_id == Len(tasks) + 1 IN
       /\ tasks' = Append(tasks, NewTask(priority, max_retries))
       /\ queues' = TaskQueue_put(queues, task_id, MEDIUM)
       /\ metrics' = [metrics EXCEPT !.queued[MEDIUM] = @ + 1]
       /\ hist' = Append(hist, [attempts |-> 0, cancelled |-> FALSE,
                                ticket |-> metrics.queued[MEDIUM] + 1,
                                pending_at_submit |->
                                    {u \in Queued(queues) : hist[u].attempts = 0},
                                busy_at_submit |-> Queued(queues) \cup active_tasks])
    /\ UNCHANGED <<max_workers, active_tasks, completed_tasks, completed_order, workers, is_running, wk, stop_pc,
                   gather, now, ret, last_get>>
submit_task(priority, max_retries) ==
    /\ LET task_id == Len(tasks) + 1 IN
       /\ tasks' = Append(tasks, NewTask(priority, max_retries))
       /\ queues' = TaskQueue_put(queues, task_id, priority)
       /\ metrics' = [metrics EXCEPT !.queued[priority] = @ + 1]
       /\ hist' = Append(hist, [attempts |-> 0, cancelled |-> FALSE,
                                ticket |-> metrics.queued[priority] + 1,
                                pending_at_submit |->
                                    {u \in Queued(queues) : hist[u].attempts = 0},
                                busy_at_submit |-> Queued(queues) \cup active_tasks])
    /\ UNCHANGED <<max_workers, active_tasks, completed_tasks, completed_order, workers, is_running, wk, stop_pc,
                   gather, now, ret, last_get>>

\* TaskRunner.cancel_task
cancel_task_any_table(task_id) ==
    /\ IF task_id \in active_tasks \cup completed_tasks
       THEN /\ tasks' = [tasks EXCEPT ![task_id].status = CANCELLED,
                                      ![task_id].completed_at = now]
            /\ hist' = [hist EXCEPT ![task_id].cancelled = TRUE]
            /\ ret' = "true"
       ELSE /\ ret' = "false"
            /\ UNCHANGED <<tasks, hist>>
    /\ UNCHANGED <<max_workers, queues, active_tasks, completed_tasks, completed_order, workers, is_running, wk,
                   stop_pc, gather, now, metrics, last_get>>
cancel_task_and_remove(task_id) ==
    /\ IF task_id \in active_tasks
       THEN /\ tasks' = [tasks EXCEPT ![task_id].status = CANCELLED,
                                      ![task_id].completed_at = now]
            /\ hist' = [hist EXCEPT ![task_id].cancelled = TRUE]
            /\ active_tasks' = active_tasks \ {task_id}
            /\ ret' = "true"
       ELSE /\ ret' = "false"
            /\ UNCHANGED <<tasks, hist, active_tasks>>
    /\ UNCHANGED <<max_workers, queues, completed_tasks, completed_order, workers, is_running, wk,
                   stop_pc, gather, now, metrics, last_get>>
cancel_task_queued_too(task_id) ==
    /\ IF task_id \in active_tasks \cup Queued(queues)
       THEN /\ tasks' = [tasks EXCEPT ![task_id].status = CANCELLED,
                                      ![task_id].completed_at = now]
            /\ hist' = [hist EXCEPT ![task_id].cancelled = TRUE]
            /\ ret' = "true"
       ELSE /\ ret' = "false"
            /\ UNCHANGED <<tasks, hist>>
    /\ UNCHANGED <<max_workers, queues, active_tasks, completed_tasks, completed_order, workers, is_running, wk,
                   stop_pc, gather, now, metrics, last_get>>
cancel_task(task_id) ==
    /\ IF task_id \in active_tasks
       THEN /\ tasks' = [tasks EXCEPT ![task_id].status = CANCELLED,
                                      ![task_id].completed_at = now]
            /\ hist' = [hist EXCEPT ![task_id].cancelled = TRUE]
            /\ ret' = "true"
       ELSE /\ ret' = "false"
            /\ UNCHANGED <<tasks, hist>>
    /\ UNCHANGED <<max_workers, queues, active_tasks, completed_tasks, completed_order, workers, is_running, wk,
                   stop_pc, gather, now, metrics, last_get>>

\* datetime.isoformat: a string made from the time; None stays None
NoValue == <<>>
isoformat(d) == <<"iso", d>>

\* Task.to_dict of the task with this id (name is not modelled)
to_dict(task_id) ==
    LET T == tasks[task_id] IN
    [task_id |-> task_id, priority |-> T.priority, status |-> T.status,
     created_at |-> isoformat(T.created_at),
     started_at |-> IF T.started_at # None THEN isoformat(T.started_at) ELSE NoValue,
     completed_at |-> IF T.completed_at # None THEN isoformat(T.completed_at) ELSE NoValue,
     result |-> T.result, error |-> T.error, retries |-> T.retries,
     max_retries |-> T.max_retries]

\* TaskRunner.get_task_status: what it returns, <<snapshot>> or <<>> for None.
\* Both tables hold the Task object itself, tasks[task_id].
get_task_status_any_task(task_id) ==
    IF task_id \in TaskIds THEN <<to_dict(task_id)>> ELSE <<>>
get_task_status_completed_only(task_id) ==
    IF task_id \in completed_tasks THEN <<to_dict(task_id)>>
    ELSE <<>>
get_task_status_returns(task_id) ==
    IF task_id \in active_tasks THEN <<to_dict(task_id)>>
    ELSE IF task_id \in completed_tasks THEN <<to_dict(task_id)>>
    ELSE <<>>

\* TaskRunner.get_task_status, a synchronous call: one step
get_task_status(task_id) ==
    /\ reply' = [call |-> "get_task_status", arg |-> task_id,
                 value |-> get_task_status_returns(task_id)]
    /\ UNCHANGED <<max_workers, tasks, queues, active_tasks, completed_tasks, completed_order, workers, is_running,
                   wk, stop_pc, gather, now, ret, metrics, hist, last_get>>

\* TaskRunner.get_active_tasks: the snapshots of the entries of the active
\* table; the order of the list (the dict's) is left out, the value is a set
get_active_tasks_returns == {to_dict(t) : t \in active_tasks}

\* TaskRunner.get_active_tasks, a synchronous call: one step
get_active_tasks ==
    /\ reply' = [call |-> "get_active_tasks", arg |-> NoTask,
                 value |-> get_active_tasks_returns]
    /\ UNCHANGED <<max_workers, tasks, queues, active_tasks, completed_tasks, completed_order,
                   workers, is_running, wk, stop_pc, gather, now, ret, metrics, hist, last_get>>

\* the sort key of get_completed_tasks (line 265): t.completed_at or t.created_at
SortKey(t) ==
    IF tasks[t].completed_at # None THEN tasks[t].completed_at ELSE tasks[t].created_at

\* list.sort(key=..., reverse=True) (line 265) is stable: entries with equal
\* keys keep the order they had.  Insertion sort, each entry placed behind the
\* entries whose key is not smaller (not larger, for the ascending variant).
RECURSIVE InsertAscending(_, _)
InsertAscending(s, t) ==
    IF s = <<>> THEN <<t>>
    ELSE IF SortKey(Head(s)) <= SortKey(t) THEN <<Head(s)>> \o InsertAscending(Tail(s), t)
    ELSE <<t>> \o s
RECURSIVE sort_ascending(_)
sort_ascending(s) ==
    IF s = <<>> THEN <<>>
    ELSE InsertAscending(sort_ascending(SubSeq(s, 1, Len(s) - 1)), s[Len(s)])
RECURSIVE InsertDescending(_, _)
InsertDescending(s, t) ==
    IF s = <<>> THEN <<t>>
    ELSE IF SortKey(Head(s)) >= SortKey(t) THEN <<Head(s)>> \o InsertDescending(Tail(s), t)
    ELSE <<t>> \o s
RECURSIVE sort_reverse(_)
sort_reverse(s) ==
    IF s = <<>> THEN <<>>
    ELSE InsertDescending(sort_reverse(SubSeq(s, 1, Len(s) - 1)), s[Len(s)])

\* the slice tasks[:limit] (line 266); a negative limit counts from the end
SliceTo(s, limit) ==
    LET n == IF limit >= 0 THEN limit ELSE Len(s) + limit
        k == IF n < 0 THEN 0 ELSE IF n > Len(s) THEN Len(s) ELSE n
    IN SubSeq(s, 1, k)

\* TaskRunner.get_completed_tasks: the list it returns
get_completed_tasks_returns(limit) ==
    LET chosen == SliceTo(sort_reverse(completed_order), limit)
    IN [i \in 1..Len(chosen) |-> to_dict(chosen[i])]

\* TaskRunner.get_completed_tasks, a synchronous call: one step
get_completed_tasks(limit) ==
    /\ reply' = [call |-> "get_completed_tasks", arg |-> limit,
                 value |-> get_completed_tasks_returns(limit)]
    /\ UNCHANGED <<max_workers, tasks, queues, active_tasks, completed_tasks, completed_order,
                   workers, is_running, wk, stop_pc, gather, now, ret, metrics, hist, last_get>>

\* TaskRunner.get_queue_status: the dict it returns
get_queue_status_returns ==
    [urgent |-> Len(queues[URGENT]), high |-> Len(queues[HIGH]),
     medium |-> Len(queues[MEDIUM]), low |-> Len(queues[LOW]),
     active_tasks |-> Cardinality(active_tasks),
     completed_tasks |-> Cardinality(completed_tasks),
     workers |-> Cardinality(workers), is_running |-> is_running]

\* TaskRunner.get_queue_status, a synchronous call: one step
get_queue_status ==
    /\ reply' = [call |-> "get_queue_status", arg |-> NoTask,
                 value |-> get_queue_status_returns]
    /\ UNCHANGED <<max_workers, tasks, queues, active_tasks, completed_tasks, completed_order,
                   workers, is_running, wk, stop_pc, gather, now, ret, metrics, hist, last_get>>

\* time passes between two steps of the program
Tick ==
    /\ now < MaxTime
    /\ now' = now + 1
    /\ UNCHANGED <<max_workers, tasks, queues, active_tasks, completed_tasks, completed_order,
                   workers, is_running, wk, stop_pc, gather, ret, metrics, hist, last_get>>

Next ==
    \/ /\ Len(tasks) < MaxTasks
       /\ \E p \in TaskPriority, m \in 0..MaxRetriesArg : submit_task(p, m)
       /\ UNCHANGED <<caller, migration>>
    \/ (\E id \in 1..MaxTasks : cancel_task(id)) /\ UNCHANGED <<caller, migration>>
    \/ start /\ UNCHANGED <<caller, migration>>
    \/ stop /\ UNCHANGED <<caller, migration>>
    \/ stop_return /\ UNCHANGED <<caller, migration>>
    \/ (\E w \in Slots : WorkerFirstRun(w)) /\ UNCHANGED <<caller, migration>>
    \/ (\E w \in Slots : WorkerWake(w)) /\ UNCHANGED <<caller, migration>>
    \/ (\E w \in Slots : WorkReturns(w)) /\ UNCHANGED <<caller, migration>>
    \/ (\E w \in Slots : WorkRaises(w)) /\ UNCHANGED <<caller, migration>>
    \/ (\E w \in Slots : WorkerCancelled(w)) /\ UNCHANGED <<caller, migration>>

Spec == Init /\ [][Next]_vars

\* the runner started and not stopped, with the queries of its callers; reply
\* is NoReply after a step that is not a query
NextQuery ==
    \/ /\ Len(tasks) < MaxTasks
       /\ \E p \in TaskPriority, m \in 0..MaxRetriesArg : submit_task(p, m)
       /\ reply' = NoReply /\ UNCHANGED <<refused, carried, migration>>
    \/ (\E id \in 1..MaxTasks : cancel_task(id)) /\ reply' = NoReply /\ UNCHANGED <<refused, carried, migration>>
    \/ start /\ reply' = NoReply /\ UNCHANGED <<refused, carried, migration>>
    \/ (\E w \in Slots : WorkerFirstRun(w)) /\ reply' = NoReply /\ UNCHANGED <<refused, carried, migration>>
    \/ (\E w \in Slots : WorkerWake(w)) /\ reply' = NoReply /\ UNCHANGED <<refused, carried, migration>>
    \/ (\E w \in Slots : WorkReturns(w)) /\ reply' = NoReply /\ UNCHANGED <<refused, carried, migration>>
    \/ (\E w \in Slots : WorkRaises(w)) /\ reply' = NoReply /\ UNCHANGED <<refused, carried, migration>>
    \/ (\E id \in 1..MaxTasks : get_task_status(id)) /\ UNCHANGED <<refused, carried, migration>>

SpecQuery == Init /\ [][NextQuery]_vars

\* the runner started and never stopped, every attempt of every work raising;
\* the event loop resumes every worker that can run, and the work ends
NextFail ==
    \/ /\ Len(tasks) < MaxTasks
       /\ \E p \in TaskPriority, m \in 0..MaxRetriesArg : submit_task(p, m)
       /\ UNCHANGED <<caller, migration>>
    \/ (\E id \in 1..MaxTasks : cancel_task(id)) /\ UNCHANGED <<caller, migration>>
    \/ start /\ UNCHANGED <<caller, migration>>
    \/ (\E w \in Slots : WorkerFirstRun(w)) /\ UNCHANGED <<caller, migration>>
    \/ (\E w \in Slots : WorkerWake(w)) /\ UNCHANGED <<caller, migration>>
    \/ (\E w \in Slots : WorkRaises(w)) /\ UNCHANGED <<caller, migration>>

SpecFail ==
    /\ Init
    /\ [][NextFail]_vars
    /\ \A w \in Slots : /\ WF_vars(WorkerFirstRun(w) /\ UNCHANGED <<caller, migration>>)
                        /\ WF_vars(WorkerWake(w) /\ UNCHANGED <<caller, migration>>)
                        /\ WF_vars(WorkRaises(w) /\ UNCHANGED <<caller, migration>>)

\* the work a cancelled worker awaits catches the CancelledError thrown into it
\* (line 188) and goes on; the worker stays in its await
WorkSwallowsCancel(w) ==
    /\ wk[w].pc = "working"
    /\ wk[w].cancel
    /\ wk' = [wk EXCEPT ![w].cancel = FALSE]
    /\ UNCHANGED <<max_workers, tasks, queues, active_tasks, completed_tasks, completed_order, workers, is_running,
                   stop_pc, gather, now, ret, metrics, hist, last_get>>

\* the runner started and stopped, with work that never ends and may swallow a
\* cancellation; the event loop resumes every coroutine that can run
NextStuck ==
    \/ /\ Len(tasks) < MaxTasks
       /\ \E p \in TaskPriority, m \in 0..MaxRetriesArg : submit_task(p, m)
       /\ UNCHANGED <<caller, migration>>
    \/ start /\ UNCHANGED <<caller, migration>>
    \/ stop /\ UNCHANGED <<caller, migration>>
    \/ stop_return /\ UNCHANGED <<caller, migration>>
    \/ (\E w \in Slots : WorkerFirstRun(w)) /\ UNCHANGED <<caller, migration>>
    \/ (\E w \in Slots : WorkerWake(w)) /\ UNCHANGED <<caller, migration>>
    \/ (\E w \in Slots : WorkerCancelled(w)) /\ UNCHANGED <<caller, migration>>
    \/ (\E w \in Slots : WorkSwallowsCancel(w)) /\ UNCHANGED <<caller, migration>>

SpecStuck ==
    /\ Init
    /\ [][NextStuck]_vars
    /\ WF_vars(stop_return /\ UNCHANGED <<caller, migration>>)
    /\ \A w \in Slots : /\ WF_vars(WorkerFirstRun(w) /\ UNCHANGED <<caller, migration>>)
                        /\ WF_vars(WorkerWake(w) /\ UNCHANGED <<caller, migration>>)
                        /\ WF_vars(WorkerCancelled(w) /\ UNCHANGED <<caller, migration>>)

\* the runner started and never stopped, every work ending (it returns or it
\* raises); the event loop resumes every worker that can run.  The caller cancels
\* only tasks that are queued and were never dequeued, and notes their ids.
QueuedOnly(t) == t \in TaskIds /\ t \in Queued(queues) /\ hist[t].attempts = 0
NextLive ==
    \/ /\ Len(tasks) < MaxTasks
       /\ \E p \in TaskPriority, m \in 0..MaxRetriesArg : submit_task(p, m)
       /\ UNCHANGED <<caller, migration>>
    \/ \E id \in 1..MaxTasks :
          /\ QueuedOnly(id)
          /\ cancel_task(id)
          /\ refused' = refused \cup {id}
          /\ UNCHANGED <<reply, carried, migration>>
    \/ start /\ UNCHANGED <<caller, migration>>
    \/ (\E w \in Slots : WorkerFirstRun(w)) /\ UNCHANGED <<caller, migration>>
    \/ (\E w \in Slots : WorkerWake(w)) /\ UNCHANGED <<caller, migration>>
    \/ (\E w \in Slots : WorkReturns(w)) /\ UNCHANGED <<caller, migration>>
    \/ (\E w \in Slots : WorkRaises(w)) /\ UNCHANGED <<caller, migration>>

\* a worker is at one place at a time, so one of these is enabled at most
WorkerRuns(w) ==
    /\ WorkerFirstRun(w) \/ WorkerWake(w) \/ WorkReturns(w) \/ WorkRaises(w)
    /\ UNCHANGED <<caller, migration>>

SpecLive == Init /\ [][NextLive]_vars /\ \A w \in Slots : WF_vars(WorkerRuns(w))

\* The runner with a clock that advances and a caller that lists the completed
\* tasks and asks for the queue status; the tasks are submitted with one of two
\* priorities.
ListedPriorities == {MEDIUM, HIGH}
NextClock ==
    \/ /\ Len(tasks) < MaxTasks
       /\ \E p \in ListedPriorities, m \in 0..MaxRetriesArg : submit_task(p, m)
       /\ reply' = NoReply /\ UNCHANGED <<refused, carried, migration>>
    \/ start /\ reply' = NoReply /\ UNCHANGED <<refused, carried, migration>>
    \/ (\E w \in Slots : WorkerFirstRun(w)) /\ reply' = NoReply /\ UNCHANGED <<refused, carried, migration>>
    \/ (\E w \in Slots : WorkerWake(w)) /\ reply' = NoReply /\ UNCHANGED <<refused, carried, migration>>
    \/ (\E w \in Slots : WorkReturns(w)) /\ reply' = NoReply /\ UNCHANGED <<refused, carried, migration>>
    \/ (\E w \in Slots : WorkRaises(w)) /\ reply' = NoReply /\ UNCHANGED <<refused, carried, migration>>
    \/ Tick /\ reply' = NoReply /\ UNCHANGED <<refused, carried, migration>>
    \/ (\E limit \in -1..MaxLimit : get_completed_tasks(limit)) /\ UNCHANGED <<refused, carried, migration>>
    \/ get_queue_status /\ UNCHANGED <<refused, carried, migration>>
SpecClock == Init /\ [][NextClock]_vars

\* Three tasks of one priority on the started runner, so that a task waiting
\* for its retry can share its lane with a task put there after it.
MaxRetryTasks == 3   \* submit_task calls where three tasks are needed
NextRetry ==
    \/ /\ Len(tasks) < MaxRetryTasks
       /\ \E m \in 0..MaxRetriesArg : submit_task(MEDIUM, m)
       /\ UNCHANGED <<caller, migration>>
    \/ start /\ UNCHANGED <<caller, migration>>
    \/ (\E w \in Slots : WorkerFirstRun(w)) /\ UNCHANGED <<caller, migration>>
    \/ (\E w \in Slots : WorkerWake(w)) /\ UNCHANGED <<caller, migration>>
    \/ (\E w \in Slots : WorkReturns(w)) /\ UNCHANGED <<caller, migration>>
    \/ (\E w \in Slots : WorkRaises(w)) /\ UNCHANGED <<caller, migration>>
SpecRetry == Init /\ [][NextRetry]_vars

\* The runner, started, stopped and restarted, whose worker loop can meet an
\* internal error; the tasks are submitted with one of two priorities.
NextLoopError ==
    \/ /\ Len(tasks) < MaxTasks
       /\ \E p \in ListedPriorities, m \in 0..MaxRetriesArg : submit_task(p, m)
       /\ UNCHANGED <<caller, migration>>
    \/ start /\ UNCHANGED <<caller, migration>>
    \/ stop /\ UNCHANGED <<caller, migration>>
    \/ stop_return /\ UNCHANGED <<caller, migration>>
    \/ (\E w \in Slots : WorkerFirstRun(w)) /\ UNCHANGED <<caller, migration>>
    \/ (\E w \in Slots : WorkerWake(w)) /\ UNCHANGED <<caller, migration>>
    \/ (\E w \in Slots : WorkReturns(w)) /\ UNCHANGED <<caller, migration>>
    \/ (\E w \in Slots : WorkRaises(w)) /\ UNCHANGED <<caller, migration>>
    \/ (\E w \in Slots : WorkerCancelled(w)) /\ UNCHANGED <<caller, migration>>
    \/ (\E w \in Slots : WorkerLoopError(w)) /\ UNCHANGED <<caller, migration>>
SpecLoopError == Init /\ [][NextLoopError]_vars

\* Three tasks of one priority on a runner that is started, stopped and
\* restarted: more tasks than workers.
NextRestart ==
    \/ /\ Len(tasks) < MaxRetryTasks
       /\ \E m \in 0..MaxRetriesArg : submit_task(MEDIUM, m)
       /\ UNCHANGED <<caller, migration>>
    \/ start /\ UNCHANGED <<caller, migration>>
    \/ stop /\ UNCHANGED <<caller, migration>>
    \/ stop_return /\ UNCHANGED <<caller, migration>>
    \/ (\E w \in Slots : WorkerFirstRun(w)) /\ UNCHANGED <<caller, migration>>
    \/ (\E w \in Slots : WorkerWake(w)) /\ UNCHANGED <<caller, migration>>
    \/ (\E w \in Slots : WorkReturns(w)) /\ UNCHANGED <<caller, migration>>
    \/ (\E w \in Slots : WorkRaises(w)) /\ UNCHANGED <<caller, migration>>
    \/ (\E w \in Slots : WorkerCancelled(w)) /\ UNCHANGED <<caller, migration>>
SpecRestart == Init /\ [][NextRestart]_vars

\* The started runner with cancel_task and the four queries of its callers; the
\* tasks are submitted with one of two priorities.
NextVisible ==
    \/ /\ Len(tasks) < MaxTasks
       /\ \E p \in ListedPriorities, m \in 0..MaxRetriesArg : submit_task(p, m)
       /\ reply' = NoReply /\ UNCHANGED <<refused, carried, migration>>
    \/ (\E id \in 1..MaxTasks : cancel_task(id)) /\ reply' = NoReply /\ UNCHANGED <<refused, carried, migration>>
    \/ start /\ reply' = NoReply /\ UNCHANGED <<refused, carried, migration>>
    \/ (\E w \in Slots : WorkerFirstRun(w)) /\ reply' = NoReply /\ UNCHANGED <<refused, carried, migration>>
    \/ (\E w \in Slots : WorkerWake(w)) /\ reply' = NoReply /\ UNCHANGED <<refused, carried, migration>>
    \/ (\E w \in Slots : WorkReturns(w)) /\ reply' = NoReply /\ UNCHANGED <<refused, carried, migration>>
    \/ (\E w \in Slots : WorkRaises(w)) /\ reply' = NoReply /\ UNCHANGED <<refused, carried, migration>>
    \/ (\E id \in 1..MaxTasks : get_task_status(id)) /\ UNCHANGED <<refused, carried, migration>>
    \/ get_active_tasks /\ UNCHANGED <<refused, carried, migration>>
    \/ get_completed_tasks(MaxLimit) /\ UNCHANGED <<refused, carried, migration>>
    \/ get_queue_status /\ UNCHANGED <<refused, carried, migration>>
SpecVisible == Init /\ [][NextVisible]_vars

\* The runner started, stopped once and started again, with work that ends and
\* an event loop that resumes every coroutine that can run.  carried notes the
\* stop and, at the restart, the tasks in the lanes: those still queued when
\* stop() was called and those submitted while the runner was stopped.
NextRestartLive ==
    \/ /\ Len(tasks) < MaxTasks
       /\ \E p \in ListedPriorities, m \in 0..MaxRetriesArg : submit_task(p, m)
       /\ UNCHANGED <<caller, migration>>
    \/ /\ start
       /\ carried' = IF ~is_running /\ carried.stops = 1
                     THEN [carried EXCEPT !.ids = Queued(queues)]
                     ELSE carried
       /\ UNCHANGED <<reply, refused, migration>>
    \/ /\ carried.stops = 0
       /\ is_running
       /\ stop
       /\ carried' = [carried EXCEPT !.stops = 1]
       /\ UNCHANGED <<reply, refused, migration>>
    \/ stop_return /\ UNCHANGED <<caller, migration>>
    \/ (\E w \in Slots : WorkerFirstRun(w)) /\ UNCHANGED <<caller, migration>>
    \/ (\E w \in Slots : WorkerWake(w)) /\ UNCHANGED <<caller, migration>>
    \/ (\E w \in Slots : WorkReturns(w)) /\ UNCHANGED <<caller, migration>>
    \/ (\E w \in Slots : WorkRaises(w)) /\ UNCHANGED <<caller, migration>>
    \/ (\E w \in Slots : WorkerCancelled(w)) /\ UNCHANGED <<caller, migration>>
SpecRestartLive ==
    /\ Init
    /\ [][NextRestartLive]_vars
    /\ WF_vars(stop_return /\ UNCHANGED <<caller, migration>>)
    /\ \A w \in Slots : /\ WF_vars(WorkerRuns(w))
                        /\ WF_vars(WorkerCancelled(w) /\ UNCHANGED <<caller, migration>>)

\* ---------------------------------------------------- MigrationAgentService
\* migration_agents/service.py.  start_migration creates the coroutine
\* _execute_migration with asyncio.create_task; it first runs when the event
\* loop next schedules it, and suspends in the asyncio.sleep of each step.
MaxMigrations == 2   \* start_migration is called at most this many times (guard in Next)
NumSteps == 6        \* len(steps), lines 96-105

\* class MigrationStatus: the same five values as TaskStatus without Retrying
MigrationStatus == {PENDING, RUNNING, COMPLETED, FAILED, CANCELLED}
MigrationIds == 1..Len(migration_tasks)

\* everything of the task runner and its callers
runner == <<max_workers, tasks, queues, active_tasks, completed_tasks, completed_order,
            workers, is_running, wk, stop_pc, gather, now, ret, metrics, hist, last_get,
            caller>>

\* MigrationTask.__init__; has_host: config["source"]["host"] is given.  pc and
\* step are the position of the task's coroutine: "created", "step" (suspended
\* in the sleep of step number step) or "finished".
NewMigration(has_host) ==
    [status |-> PENDING, progress |-> 0, result |-> None, error |-> "none",
     steps_completed |-> <<>>, has_host |-> has_host, pc |-> "created", step |-> 0]

\* MigrationAgentService.start_migration; generate_task_id gives a fresh uuid
start_migration(has_host) ==
    /\ LET task_id == Len(migration_tasks) + 1 IN
       /\ migration_tasks' = Append(migration_tasks, NewMigration(has_host))
       /\ migration_active' = migration_active \cup {task_id}
    /\ UNCHANGED <<migration_completed, migration_ret, migration_cancelled, runner>>

\* MigrationAgentService.cancel_migration
cancel_migration(task_id) ==
    /\ IF task_id \in migration_active
       THEN /\ migration_tasks' = [migration_tasks EXCEPT ![task_id].status = CANCELLED]
            /\ migration_ret' = "true"
            /\ migration_cancelled' = migration_cancelled \cup {task_id}
       ELSE /\ migration_ret' = "false"
            /\ UNCHANGED <<migration_tasks, migration_cancelled>>
    /\ UNCHANGED <<migration_active, migration_completed, runner>>

\* _execute_migration from the top of the loop iteration of step k (lines
\* 107-114) up to the next suspension, with what follows the loop (lines
\* 125-136) when the loop ends or breaks.  M: the task as it is then.
EnterStep(M, k) ==
    IF k <= NumSteps /\ M.status # CANCELLED
    THEN [M EXCEPT !.pc = "step", !.step = k]
    ELSE IF M.status # CANCELLED
         THEN [M EXCEPT !.status = COMPLETED, !.progress = 100, !.result = 1000,
                        !.pc = "finished"]
         ELSE [M EXCEPT !.pc = "finished"]

\* the coroutine goes on with the task changed to M; when it has finished, the
\* finally block (lines 144-147) moves the task to completed_tasks
Continue(task_id, M) ==
    /\ migration_tasks' = [migration_tasks EXCEPT ![task_id] = M]
    /\ IF M.pc = "finished" /\ task_id \in migration_active
       THEN /\ migration_active' = migration_active \ {task_id}
            /\ migration_completed' = migration_completed \cup {task_id}
       ELSE UNCHANGED <<migration_active, migration_completed>>
    /\ UNCHANGED <<migration_ret, migration_cancelled, runner>>

\* the coroutine runs for the first time: line 93, then the first iteration
MigrationFirstRun(task_id) ==
    /\ task_id \in MigrationIds
    /\ migration_tasks[task_id].pc = "created"
    /\ Continue(task_id, EnterStep([migration_tasks[task_id] EXCEPT !.status = RUNNING], 1))

\* the sleep of the current step is over.  _validate_source_system (step 1)
\* raises when the host is missing (lines 154-155): lines 118-123, then finally.
\* Every other step returns: lines 115-116, then the next iteration.
StepReturns_keeps_cancelled_active(task_id) ==
    /\ task_id \in MigrationIds
    /\ migration_tasks[task_id].pc = "step"
    /\ LET M == migration_tasks[task_id]
           k == M.step
           N == IF k = 1 /\ ~M.has_host
                THEN [M EXCEPT !.status = FAILED, !.error = "failed at step", !.pc = "finished"]
                ELSE EnterStep([M EXCEPT !.steps_completed = Append(@, k),
                                         !.progress = (k * 100) \div NumSteps], k + 1)
       IN IF N.status = CANCELLED
          THEN /\ migration_tasks' = [migration_tasks EXCEPT ![task_id] = N]
               /\ UNCHANGED <<migration_active, migration_completed, migration_ret,
                              migration_cancelled, runner>>
          ELSE Continue(task_id, N)
StepReturns(task_id) ==
    /\ task_id \in MigrationIds
    /\ migration_tasks[task_id].pc = "step"
    /\ LET M == migration_tasks[task_id]
           k == M.step
       IN IF k = 1 /\ ~M.has_host
          THEN Continue(task_id, [M EXCEPT !.status = FAILED, !.error = "failed at step",
                                           !.pc = "finished"])
          ELSE Continue(task_id, EnterStep([M EXCEPT !.steps_completed = Append(@, k),
                                                     !.progress = (k * 100) \div NumSteps],
                                           k + 1))

\* The migration service with its callers; the event loop resumes every
\* coroutine that can run.
NextMigration ==
    \/ /\ Len(migration_tasks) < MaxMigrations
       /\ \E has_host \in BOOLEAN : start_migration(has_host)
    \/ \E id \in 1..MaxMigrations : cancel_migration(id)
    \/ \E id \in 1..MaxMigrations : MigrationFirstRun(id)
    \/ \E id \in 1..MaxMigrations : StepReturns(id)
SpecMigration ==
    /\ Init
    /\ [][NextMigration]_vars
    /\ \A id \in 1..MaxMigrations : /\ WF_vars(MigrationFirstRun(id))
                                    /\ WF_vars(StepReturns(id))

\* ------------------------------------------------------------------ claims
InQueue(t) == t \in Queued(queues)
Higher(t1, t2) == Rank(tasks[t1].priority) > Rank(tasks[t2].priority)

\* C1: every task is in at most one of a queue lane, the active table and the
\* completed table; no id is in both tables, none is queued and active.
C1_AtMostOnePlace ==
    \A t \in TaskIds :
        /\ ~(t \in active_tasks /\ t \in completed_tasks)
        /\ ~(InQueue(t) /\ t \in active_tasks)
        /\ ~(InQueue(t) /\ t \in completed_tasks)

\* C2: a task that failed with retries left is Retrying, back in its lane and not
\* in the completed table; every entry of the completed table is terminal.
C2_CompletedTableIsTerminal ==
    /\ \A t \in TaskIds : tasks[t].status = RETRYING => t \notin completed_tasks
    /\ \A t \in completed_tasks : tasks[t].status \in Terminal

\* C3: with a started runner, a task whose work raises on every attempt reaches
\* Failed, after exactly max_retries + 1 attempts, with retries = max_retries + 1
\* and the error message recorded.
C3_AlwaysFailingEndsFailed ==
    /\ [](\A t \in TaskIds :
            /\ hist[t].attempts <= tasks[t].max_retries + 1
            /\ tasks[t].status = FAILED =>
                /\ hist[t].attempts = tasks[t].max_retries + 1
                /\ tasks[t].retries = tasks[t].max_retries + 1
                /\ tasks[t].error = "message")
    /\ \A t \in 1..MaxTasks :
          (is_running /\ t \in TaskIds) ~> (t \in TaskIds /\ tasks[t].status = FAILED)
C3_Witness ==
    \E t \in TaskIds :
        /\ tasks[t].status = FAILED
        /\ tasks[t].max_retries = 1
        /\ hist[t].attempts = 2
        /\ tasks[t].retries = 2

\* C4: a get that returns a task returns the front of the highest-priority lane
\* that is not empty at that moment, also after it waited on empty lanes.
C4_GetTakesFrontOfHighestLane ==
    last_get.task # NoTask =>
        LET nonempty == {p \in TaskPriority : last_get.heads[p] # NoTask}
            top == CHOOSE p \in nonempty : \A q \in nonempty : Rank(q) <= Rank(p)
        IN /\ nonempty # {}
           /\ last_get.task = last_get.heads[top]
C4_Witness ==
    /\ last_get.task # NoTask
    /\ last_get.waited
    /\ Cardinality({p \in TaskPriority : last_get.heads[p] # NoTask}) >= 2

\* C5: a lane is first-in first-out: the entry at position i of a lane is the
\* task of the i-th put into that lane after those already taken from it.
C5_LaneIsFifo ==
    \A p \in TaskPriority :
        \A i \in 1..Len(queues[p]) :
            hist[queues[p][i]].ticket = metrics.dequeued[p] + i
C5_Witness ==
    \E p \in TaskPriority :
        /\ metrics.dequeued[p] = 2
        /\ Len(queues[p]) = 1
        /\ tasks[queues[p][1]].retries = 1
        /\ \E u \in TaskIds : /\ u # queues[p][1]
                              /\ tasks[u].priority = p
                              /\ tasks[u].status = RUNNING

\* C6 as stated: of two tasks submitted while nothing else is queued or active,
\* the one of higher priority is dequeued strictly before the other.
OtherwiseIdle(t1, t2) ==
    /\ hist[t1].busy_at_submit \subseteq {t2}
    /\ hist[t2].busy_at_submit \subseteq {t1}
C6_HigherPriorityFirst ==
    \A t1, t2 \in TaskIds :
        (Higher(t1, t2) /\ OtherwiseIdle(t1, t2)) =>
            ~(hist[t2].attempts > 0 /\ hist[t1].attempts = 0)
\* C6 as amended: the same, for two tasks that were in the queue together, neither
\* yet dequeued (the second was submitted before the first was dequeued).
QueuedTogether(t1, t2) ==
    \/ t2 \in hist[t1].pending_at_submit
    \/ t1 \in hist[t2].pending_at_submit
C6_HigherPriorityFirstOfQueuedPair ==
    \A t1, t2 \in TaskIds :
        (Higher(t1, t2) /\ OtherwiseIdle(t1, t2) /\ QueuedTogether(t1, t2)) =>
            ~(hist[t2].attempts > 0 /\ hist[t1].attempts = 0)
C6_Witness ==
    \E t1, t2 \in TaskIds :
        /\ Higher(t1, t2)
        /\ OtherwiseIdle(t1, t2)
        /\ t2 \in hist[t1].pending_at_submit
        /\ hist[t1].attempts > 0
        /\ hist[t2].attempts > 0

\* C7: for every task exactly one holds: result set, error set, status not
\* terminal.
C7_ExactlyOneOutcome ==
    \A t \in TaskIds :
        Cardinality({k \in {"result", "error", "open"} :
            \/ k = "result" /\ tasks[t].result # None
            \/ k = "error" /\ tasks[t].error # "none"
            \/ k = "open" /\ tasks[t].status \notin Terminal}) = 1

\* C8: a terminal status never changes.
C8_TerminalIsFinal ==
    [][\A t \in TaskIds :
          tasks[t].status \in Terminal => tasks'[t].status = tasks[t].status]_vars

\* C9: a task cancelled while active is found, once the worker has moved it out
\* of the active table, in the completed table with status Cancelled.
C9_CancelledEndsCancelled ==
    \A t \in TaskIds :
        (hist[t].cancelled /\ t \notin active_tasks) =>
            (t \in completed_tasks /\ tasks[t].status = CANCELLED)

\* C10: cancel_task(id) returns true exactly when id is in the active table, and
\* then the task is Cancelled with completed_at stamped; otherwise it returns
\* false and changes nothing.
C10_CancelTaskContract ==
    [][\A id \in 1..MaxTasks :
          cancel_task(id) =>
              IF id \in active_tasks
              THEN /\ ret' = "true"
                   /\ tasks'[id].status = CANCELLED
                   /\ tasks'[id].completed_at # None
              ELSE /\ ret' = "false"
                   /\ UNCHANGED <<tasks, queues, active_tasks, completed_tasks, completed_order,
                                  workers, is_running, wk, metrics>>]_vars
C10_Witness ==
    /\ ret = "true"
    /\ \E t \in active_tasks : /\ hist[t].cancelled
                               /\ tasks[t].status = CANCELLED
                               /\ tasks[t].completed_at # None

\* C11: cancel_task on a task that is only queued, never yet dequeued, returns
\* false and leaves it in its lane; with a started runner the task is still
\* dequeued and its work is run to an outcome.
HasOutcome(t) == t \in TaskIds /\ (tasks[t].result # None \/ tasks[t].retries > 0)
C11_CancelOfQueuedIsRefused ==
    /\ [][\A id \in 1..MaxTasks :
            (QueuedOnly(id) /\ cancel_task(id)) =>
                /\ ret' = "false"
                /\ UNCHANGED <<tasks, queues, active_tasks, completed_tasks, completed_order>>]_vars
    /\ \A t \in 1..MaxTasks : (is_running /\ t \in refused) ~> HasOutcome(t)
C11_Witness ==
    \E t \in refused : /\ tasks[t].status = COMPLETED
                        /\ hist[t].attempts = 1
                        /\ ~hist[t].cancelled

\* C12: with a started runner that is not stopped and work that ends, every
\* submitted task ends terminal in the completed table, out of the lanes and the
\* active table; once all N tasks are submitted the completed table ends with
\* exactly the N tasks, the lanes and the active table empty, and stays so.
Finished(t) ==
    /\ t \in TaskIds
    /\ tasks[t].status \in Terminal
    /\ t \in completed_tasks
    /\ t \notin active_tasks
    /\ ~InQueue(t)
AllDone ==
    /\ completed_tasks = TaskIds
    /\ Cardinality(completed_tasks) = Len(tasks)
    /\ active_tasks = {}
    /\ queues = EmptyQueues
C12_AllTasksFinish ==
    /\ \A t \in 1..MaxTasks : (is_running /\ t \in TaskIds) ~> Finished(t)
    /\ is_running ~> AllDone
    /\ (is_running /\ Len(tasks) = MaxTasks) ~> [](AllDone /\ Len(tasks) = MaxTasks)
C12_Witness ==
    /\ is_running
    /\ Len(tasks) = MaxTasks
    /\ AllDone
    /\ \E t, u \in TaskIds : /\ tasks[t].status = COMPLETED
                              /\ tasks[t].retries = 1
                              /\ tasks[u].status = FAILED
                              /\ tasks[u].priority # tasks[t].priority

\* C13: a task is held by at most one worker at a time, and its work is invoked
\* no more often than its retries allow: the invocations number the failed
\* attempts (retries), plus one if it succeeded, plus the one still open while
\* the task is in the active table; they never exceed max_retries + 1.
Holders(t) == {w \in Slots : wk[w].pc = "working" /\ wk[w].task = t}
Stopped == ~is_running /\ stop_pc = "idle"
C16_NoRunningLeftAfterStop ==
    Stopped => \A t \in active_tasks : tasks[t].status # RUNNING

\* C17: stop() always returns to its caller, also when a worker does not end
\* after it was cancelled.
C17_StopAlwaysReturns == (stop_pc = "gather") ~> (stop_pc = "idle")

\* C18: submit_task, in any state of the runner, adds exactly one task, Pending
\* with retries 0 and an id no task had, at the back of the lane of its priority,
\* and leaves the other lanes, the other tasks, the two tables and the workers
\* as they were; it runs nothing.  On a runner without workers that is not
\* running, as before the first start(), no step dequeues or executes a task.
NeverRunning == ~is_running /\ workers = {} /\ Live = {}
C18_SubmitOnlyEnqueues ==
    [][/\ \A p \in TaskPriority, m \in 0..MaxRetriesArg :
            submit_task(p, m) =>
                LET id == Len(tasks) + 1 IN
                /\ Len(tasks') = Len(tasks) + 1
                /\ \A t \in TaskIds : tasks'[t] = tasks[t] /\ hist'[t].attempts = hist[t].attempts
                /\ tasks'[id].status = PENDING
                /\ tasks'[id].retries = 0
                /\ tasks'[id].priority = p
                /\ tasks'[id].max_retries = m
                /\ hist'[id].attempts = 0
                /\ id \notin Queued(queues) \cup active_tasks \cup completed_tasks
                /\ queues'[p] = Append(queues[p], id)
                /\ \A q \in TaskPriority \ {p} : queues'[q] = queues[q]
                /\ UNCHANGED <<active_tasks, completed_tasks, completed_order, workers, wk, is_running>>
       /\ NeverRunning =>
             /\ metrics'.dequeued = metrics.dequeued
             /\ active_tasks' = active_tasks
             /\ \A t \in TaskIds : hist'[t].attempts = hist[t].attempts]_vars
C18_Witness ==
    /\ Len(tasks) = 2
    /\ tasks[2].status = PENDING
    /\ InQueue(2)
    /\ hist[2].busy_at_submit = {1}
    /\ 1 \in active_tasks
    /\ tasks[1].priority = tasks[2].priority
    /\ tasks[1].status = RUNNING
    /\ is_running

\* C19: get_task_status(id) returns a snapshot of the task when id is in the
\* active table, else when id is in the completed table, and None when it is in
\* neither (unknown, or only queued); the snapshot shows the task's fields as
\* they are; the call changes no task, lane, table or worker.
C19_GetTaskStatusContract ==
    [][\A id \in 1..MaxTasks :
          get_task_status(id) =>
              /\ reply'.value = <<>> <=> id \notin active_tasks \cup completed_tasks
              /\ reply'.value # <<>> =>
                    LET snapshot == reply'.value[1] IN
                    /\ Len(reply'.value) = 1
                    /\ snapshot.task_id = id
                    /\ snapshot.status = tasks[id].status
                    /\ snapshot.priority = tasks[id].priority
                    /\ snapshot.retries = tasks[id].retries
                    /\ snapshot.max_retries = tasks[id].max_retries
                    /\ snapshot.result = tasks[id].result
                    /\ snapshot.error = tasks[id].error
                    /\ snapshot.created_at = isoformat(tasks[id].created_at)
                    /\ snapshot.started_at # NoValue <=> tasks[id].started_at # None
                    /\ snapshot.completed_at # NoValue <=> tasks[id].completed_at # None
              /\ UNCHANGED <<tasks, queues, active_tasks, completed_tasks, completed_order, workers,
                             is_running, wk, metrics>>]_vars
C19_Witness ==
    /\ reply.call = "get_task_status"
    /\ reply.value # <<>>
    /\ reply.arg \in active_tasks
    /\ reply.value[1].status = RUNNING
    /\ reply.value[1].retries = 1
    /\ \E t \in TaskIds : InQueue(t)

\* C20: once get_task_status(id) has returned a snapshot with a terminal
\* status, a later get_task_status(id) returns the same snapshot.
C20_TerminalSnapshotIsFinal ==
    [][\A id \in 1..MaxTasks :
          (/\ reply.call = "get_task_status"
           /\ reply.arg = id
           /\ reply.value # <<>>
           /\ reply.value[1].status \in Terminal) =>
              get_task_status_returns(id)' = reply.value]_vars

\* C21: a task whose work returned on its first attempt, and that was not
\* cancelled, is in the completed table with status Completed, the work's
\* return value as result (5 for add(2, 3)), retries 0, no error and
\* completed_at set.
FirstAttemptReturned(t) ==
    /\ hist[t].attempts = 1
    /\ tasks[t].retries = 0
    /\ t \notin active_tasks
C21_FirstAttemptSuccess ==
    \A t \in TaskIds :
        (FirstAttemptReturned(t) /\ ~hist[t].cancelled) =>
            /\ t \in completed_tasks
            /\ ~InQueue(t)
            /\ tasks[t].status = COMPLETED
            /\ tasks[t].result = 5
            /\ tasks[t].retries = 0
            /\ tasks[t].error = "none"
            /\ tasks[t].completed_at # None
C21_Witness ==
    \E t \in TaskIds :
        /\ FirstAttemptReturned(t)
        /\ ~hist[t].cancelled
        /\ tasks[t].priority = HIGH
        /\ tasks[t].status = COMPLETED
        /\ tasks[t].result = 5

\* C22: get_completed_tasks(limit), for limit >= 0, returns min(limit, size of
\* the completed table) snapshots of distinct entries of the completed table,
\* ordered by completion time (creation time when completed_at is unset)
\* descending, no entry left out being later than one returned; the call
\* changes no state.
Smaller(a, b) == IF a < b THEN a ELSE b
C22_GetCompletedTasksContract ==
    [][\A limit \in 0..MaxLimit :
          get_completed_tasks(limit) =>
              LET v == reply'.value
                  n == Len(v)
                  returned == {v[i].task_id : i \in 1..n}
              IN /\ n = Smaller(limit, Cardinality(completed_tasks))
                 /\ \A i \in 1..n : /\ v[i].task_id \in completed_tasks
                                     /\ v[i] = to_dict(v[i].task_id)
                 /\ \A i, j \in 1..n :
                        i < j => /\ v[i].task_id # v[j].task_id
                                 /\ SortKey(v[i].task_id) >= SortKey(v[j].task_id)
                 /\ \A t \in completed_tasks \ returned :
                        \A u \in returned : SortKey(t) <= SortKey(u)
                 /\ UNCHANGED <<max_workers, tasks, queues, active_tasks, completed_tasks,
                                completed_order, workers, is_running, wk, stop_pc, gather,
                                now, ret, metrics>>]_vars
\* a call with limit 1 returned the later of two completed tasks, which is not
\* the one that entered the table first; the other has no completion time
C22_Witness ==
    /\ reply.call = "get_completed_tasks"
    /\ reply.arg = 1
    /\ Cardinality(completed_tasks) = 2
    /\ Len(reply.value) = 1
    /\ reply.value[1].task_id = completed_order[2]
    /\ reply.value[1].completed_at # NoValue
    /\ tasks[completed_order[1]].completed_at = None
    /\ SortKey(completed_order[2]) > SortKey(completed_order[1])
\* the first half of C23 alone: the eight values reported are those of the
\* state of the call
C23_ReportsExactCounts ==
    [][get_queue_status =>
          LET v == reply'.value
          IN /\ \A p \in TaskPriority : v[p] = Len(queues[p])
             /\ v.active_tasks = Cardinality(active_tasks)
             /\ v.completed_tasks = Cardinality(completed_tasks)
             /\ v.workers = Cardinality(workers)
             /\ v.is_running = is_running]_vars
\* C23: get_queue_status() reports the exact length of each of the four lanes,
\* the sizes of the active and the completed table, the number of workers and
\* the is_running flag of the state it is called in, and the four lane counts,
\* the active count and the completed count add up to the number of tasks
\* submitted so far.
C23_QueueStatusAddsUp ==
    [][get_queue_status =>
          LET v == reply'.value
          IN /\ \A p \in TaskPriority : v[p] = Len(queues[p])
             /\ v.active_tasks = Cardinality(active_tasks)
             /\ v.completed_tasks = Cardinality(completed_tasks)
             /\ v.workers = Cardinality(workers)
             /\ v.is_running = is_running
             /\ v.urgent + v.high + v.medium + v.low + v.active_tasks + v.completed_tasks
                    = Len(tasks)]_vars
\* C24: in every reachable state every task has 0 <= retries <= max_retries + 1,
\* and retries = max_retries + 1 only when its status is Failed.
C24_RetriesBounded ==
    \A t \in TaskIds :
        /\ 0 <= tasks[t].retries
        /\ tasks[t].retries <= tasks[t].max_retries + 1
        /\ tasks[t].retries = tasks[t].max_retries + 1 => tasks[t].status = FAILED
\* a task that was retried and then failed for good, while another task is at
\* its last attempt with retries = max_retries
C24_Witness ==
    \E t, u \in TaskIds :
        /\ tasks[t].max_retries = 1
        /\ tasks[t].retries = 2
        /\ tasks[t].status = FAILED
        /\ hist[t].attempts = 2
        /\ tasks[u].retries = tasks[u].max_retries
        /\ tasks[u].retries = 1
        /\ tasks[u].status = RUNNING
\* C25: a retried task is re-enqueued as the same task (no new task, same
\* priority, retries kept at its incremented value) at the back of its own
\* lane, behind every task queued there at the time of the failure; and when a
\* retried task is dequeued again, every other task in its lane was enqueued
\* after its re-enqueue, so those that were queued at the failure have been
\* dequeued before it.
Lane(p) == {queues[p][i] : i \in 1..Len(queues[p])}
RetryOf(t) ==
    \E w \in Slots : /\ WorkRaises(w)
                      /\ wk[w].task = t
                      /\ tasks[t].retries < tasks[t].max_retries
C25_RetryGoesToBackOfLane ==
    [][\A t \in TaskIds :
          LET p == tasks[t].priority IN
          /\ RetryOf(t) =>
                 /\ Len(tasks') = Len(tasks)
                 /\ tasks'[t].priority = p
                 /\ tasks'[t].retries = tasks[t].retries + 1
                 /\ tasks'[t].max_retries = tasks[t].max_retries
                 /\ tasks'[t].created_at = tasks[t].created_at
                 /\ \/ queues'[p] = Append(queues[p], t)
                    \/ queues'[p] = Tail(Append(queues[p], t))
                 /\ \A u \in Lane(p) : hist[u].ticket < hist'[t].ticket
          /\ (hist'[t].attempts > hist[t].attempts /\ tasks[t].retries > 0) =>
                 \A u \in Lane(p) \ {t} : hist[u].ticket > hist[t].ticket]_vars
\* a retried task t is at its second attempt; the task u that was queued when
\* t failed has run since, failed, and waits for its own retry in the lane
\* behind t's place
C25_Witness ==
    \E t, u \in TaskIds :
        /\ t # u
        /\ tasks[t].priority = tasks[u].priority
        /\ tasks[t].status = RUNNING
        /\ tasks[t].retries = 1
        /\ hist[t].attempts = 2
        /\ t \in hist[u].busy_at_submit
        /\ tasks[u].status = RETRYING
        /\ hist[u].attempts = 1
        /\ queues[tasks[u].priority] = <<u>>
        /\ hist[u].ticket > hist[t].ticket
        /\ last_get.task = t
        /\ last_get.heads[tasks[t].priority] = t

\* C26: cancel_task changes only the status and completed_at of the targeted
\* task: the worker running that task's work goes on as before, the task stays
\* in the active table, and the queue lanes, the completed table, the worker
\* set, is_running and every other task are unchanged.
C26_CancelChangesOnlyBookkeeping ==
    [][\A id \in 1..MaxTasks :
          cancel_task(id) =>
              /\ Len(tasks') = Len(tasks)
              /\ \A t \in TaskIds : t # id => tasks'[t] = tasks[t]
              /\ id \in TaskIds =>
                     tasks' = [tasks EXCEPT ![id].status = tasks'[id].status,
                                            ![id].completed_at = tasks'[id].completed_at]
              /\ wk' = wk
              /\ active_tasks' = active_tasks
              /\ UNCHANGED <<queues, completed_tasks, completed_order, workers, is_running,
                             max_workers, stop_pc, gather, metrics>>]_vars
\* a running task was cancelled: it is Cancelled, still in the active table,
\* its worker still at the await of its work, and another task is queued
C26_Witness ==
    \E t, u \in TaskIds :
        /\ ret = "true"
        /\ hist[t].cancelled
        /\ tasks[t].status = CANCELLED
        /\ t \in active_tasks
        /\ \E w \in Slots : wk[w].pc = "working" /\ wk[w].task = t /\ ~wk[w].cancel
        /\ u # t
        /\ InQueue(u)
        /\ is_running

\* C27: a failure of a task's work does not leave the worker: on every work
\* failure in the running runner, retried or permanent, the worker that ran the
\* task is alive afterwards and has gone on to dequeue (it holds the next task
\* when a lane is non-empty, else it sleeps in get), is_running and the worker
\* list are unchanged, no other task's record changes except that of the task
\* dequeued next, and the failed task's record shows the failure in status,
\* error and retries (with completed_at when the failure is permanent).
FailureOf(w, t) == WorkRaises(w) /\ wk[w].task = t /\ is_running
C27_FailureStaysInTask ==
    [][\A w \in Slots : \A t \in TaskIds :
          FailureOf(w, t) =>
              LET retried == tasks[t].retries < tasks[t].max_retries
                  next == wk'[w].task
              IN /\ wk'[w].pc \in {"working", "sleeping"}
                 /\ wk'[w].pc = "sleeping" => Queued(queues') = {}
                 /\ wk'[w].pc = "working" =>
                        /\ next \in active_tasks'
                        /\ tasks'[next].status = RUNNING
                        /\ hist'[next].attempts = hist[next].attempts + 1
                 /\ \A x \in Slots \ {w} : wk'[x] = wk[x]
                 /\ UNCHANGED <<is_running, workers, max_workers, stop_pc, gather, ret>>
                 /\ Len(tasks') = Len(tasks)
                 /\ \A u \in TaskIds \ {t, next} : tasks'[u] = tasks[u]
                 /\ tasks'[t].retries = tasks[t].retries + 1
                 /\ tasks'[t].error = "message"
                 /\ tasks'[t].result = tasks[t].result
                 /\ tasks'[t].priority = tasks[t].priority
                 /\ tasks'[t].created_at = tasks[t].created_at
                 /\ tasks'[t].max_retries = tasks[t].max_retries
                 /\ next # t => tasks'[t].status = IF retried THEN RETRYING ELSE FAILED
                 /\ retried => tasks'[t].completed_at = tasks[t].completed_at
                 /\ t \notin active_tasks' \/ next = t]_vars
\* a task has failed for good and the worker that ran it now runs another task
\* that was dequeued in that same step
C27_Witness ==
    \E t, u \in TaskIds : \E w \in Slots :
        /\ is_running
        /\ tasks[t].status = FAILED
        /\ tasks[t].error = "message"
        /\ t \in completed_tasks
        /\ wk[w].pc = "working"
        /\ wk[w].task = u
        /\ u # t
        /\ last_get.task = u
        /\ ~last_get.waited
        /\ \A x \in Slots \ {w} : wk[x].pc = "fresh"

C29_ActiveWithinPool == Cardinality(active_tasks) <= max_workers
\* C29: the active table never has more than max_workers entries, after any
\* sequence of submit, execution, stop and restart: every active entry is a
\* task held by a live worker.
C29_ActiveHeldByLiveWorkers ==
    /\ Cardinality(active_tasks) <= max_workers
    /\ \A t \in active_tasks : Holders(t) # {}

\* C30: no submitted task is ever lost: in every reachable state, also while
\* stop() is cancelling the workers, every task submit_task accepted is in a
\* queue lane, in the active table or in the completed table.
C30_NoTaskLost ==
    \A t \in TaskIds : InQueue(t) \/ t \in active_tasks \/ t \in completed_tasks
\* stop() waits in gather; the worker that held t was cancelled and is gone,
\* t is still in the active table, u is still queued
C30_Witness ==
    \E t, u \in TaskIds :
        /\ stop_pc = "gather"
        /\ ~is_running
        /\ t \in active_tasks
        /\ Holders(t) = {}
        /\ ~InQueue(t)
        /\ t \notin completed_tasks
        /\ InQueue(u)
        /\ \E w \in Slots : wk[w].pc # "dead" /\ wk[w].cancel

\* C31: after cancel_task(id) has returned true the work of that task is never
\* invoked again: a cancelled task is not put in a lane and no attempt of it
\* starts.
C31_CancelledNeverRunsAgain ==
    [][\A t \in TaskIds :
          hist[t].cancelled =>
              /\ hist'[t].attempts = hist[t].attempts
              /\ ~InQueue(t)'
              /\ tasks'[t].retries > tasks[t].retries => tasks'[t].status # RETRYING]_vars

\* C32: in every reachable state a task has completed_at set only if its
\* status is terminal (Completed, Failed or Cancelled); a Pending, Running or
\* Retrying task carries no completion timestamp.
C32_CompletedAtOnlyWhenTerminal ==
    \A t \in TaskIds : tasks[t].completed_at # None => tasks[t].status \in Terminal

\* C33: every task in a queue lane is Pending with retries = 0 and never
\* attempted, or Retrying with retries >= 1; no Running, Completed, Failed or
\* Cancelled task is in a lane.
C33_LaneHoldsPendingOrRetrying ==
    \A t \in TaskIds :
        InQueue(t) =>
            \/ /\ tasks[t].status = PENDING
               /\ tasks[t].retries = 0
               /\ hist[t].attempts = 0
            \/ /\ tasks[t].status = RETRYING
               /\ tasks[t].retries >= 1
\* a task waits in its lane for its retry after a cancel_task call on it
\* returned true, while the other task runs
C33_Witness ==
    \E t, u \in TaskIds :
        /\ InQueue(t)
        /\ tasks[t].status = RETRYING
        /\ tasks[t].retries = 1
        /\ hist[t].cancelled
        /\ u # t
        /\ tasks[u].status = RUNNING

\* C34: a task that was submitted and not yet dequeued by any worker is
\* invisible to the status queries: get_task_status of it returns None, it is
\* in neither get_active_tasks nor get_completed_tasks, and it is counted in
\* its lane by get_queue_status; get_task_status never returns status Pending.
NotYetDequeued(t) == t \in TaskIds /\ hist[t].attempts = 0
C34_QueuedTaskIsInvisible ==
    /\ [](\A t \in 1..MaxTasks :
             NotYetDequeued(t) =>
                 InQueue(t) /\ t \notin active_tasks /\ t \notin completed_tasks)
    /\ [][/\ \A t \in 1..MaxTasks :
                 NotYetDequeued(t) =>
                     /\ get_task_status(t) => reply'.value = <<>>
                     /\ get_active_tasks =>
                            \A d \in reply'.value : d.task_id # t
                     /\ get_completed_tasks(MaxLimit) =>
                            \A i \in 1..Len(reply'.value) : reply'.value[i].task_id # t
                     /\ get_queue_status => reply'.value[tasks[t].priority] >= 1
          /\ \A id \in 1..MaxTasks :
                get_task_status(id) =>
                    \/ reply'.value = <<>>
                    \/ reply'.value[1].status # PENDING]_vars
\* get_task_status returned None for a task that sits in its lane, never
\* dequeued, on a started runner whose other task is visible as active
C34_Witness ==
    \E t, u \in TaskIds :
        /\ reply.call = "get_task_status"
        /\ reply.arg = t
        /\ reply.value = <<>>
        /\ NotYetDequeued(t)
        /\ InQueue(t)
        /\ is_running
        /\ u \in active_tasks

\* C35: a runner can be restarted: after stop() followed by start(), the tasks
\* that were still queued when stop() was called and the tasks submitted while
\* the runner was stopped are dequeued by the new workers and end in the
\* completed table with a terminal status (the work ends, scheduling is fair).
C35_RestartFinishesQueuedTasks ==
    \A t \in 1..MaxTasks : (t \in carried.ids) ~> Finished(t)
\* after the restart both carried tasks are finished, one of them submitted
\* before the first start and retried
C35_Witness ==
    /\ carried.stops = 1
    /\ is_running
    /\ Cardinality(carried.ids) = 2
    /\ \A t \in carried.ids : Finished(t)
    /\ \E t \in carried.ids : tasks[t].retries = 2 /\ tasks[t].status = FAILED

\* C36: every migration started by start_migration is at all times in exactly
\* one of active_tasks and completed_tasks of the MigrationAgentService; it is
\* moved from active to completed once, in the step in which _execute_migration
\* finishes (by success, step failure or cancellation), never back, and this
\* eventually happens for every started migration.
MigrationFinished(id) == id \in MigrationIds /\ migration_tasks[id].pc = "finished"
C36_MigrationInExactlyOneTable ==
    /\ [](\A id \in MigrationIds :
             /\ (id \in migration_active) # (id \in migration_completed)
             /\ id \in migration_completed <=> MigrationFinished(id))
    /\ [](migration_active \cup migration_completed = MigrationIds)
    /\ [][\A id \in MigrationIds :
             /\ id \in migration_completed =>
                    id \in migration_completed' /\ id \notin migration_active'
             /\ (id \in migration_active /\ id \in migration_completed') =>
                    /\ MigrationFirstRun(id) \/ StepReturns(id)
                    /\ migration_tasks'[id].pc = "finished"
                    /\ migration_tasks'[id].status \in {COMPLETED, FAILED, CANCELLED}]_vars
    /\ \A id \in 1..MaxMigrations :
          (id \in MigrationIds) ~> (id \in migration_completed /\ id \notin migration_active)
\* one migration finished by success, the other by cancellation
C36_Witness ==
    \E a, b \in MigrationIds :
        /\ migration_completed = {a, b}
        /\ migration_active = {}
        /\ migration_tasks[a].status = COMPLETED
        /\ migration_tasks[a].progress = 100
        /\ Len(migration_tasks[a].steps_completed) = NumSteps
        /\ migration_tasks[b].status = CANCELLED
        /\ b \in migration_cancelled
        /\ Len(migration_tasks[b].steps_completed) = 2

\* cancel_migration of an id that is not in active_tasks returns false and
\* changes no task and no table
C37_CancelOfInactiveIsRefused ==
    [][\A id \in 1..MaxMigrations :
          (cancel_migration(id) /\ id \notin migration_active) =>
              /\ migration_ret' = "false"
              /\ UNCHANGED <<migration_tasks, migration_active, migration_completed>>]_vars
\* C37: once cancel_migration(id) has returned true the migration's status
\* stays Cancelled (it never becomes Completed or Failed), no migration step is
\* started after the cancellation, and the task ends in completed_tasks with
\* status Cancelled; cancel_migration returns false and changes nothing for an
\* id that is not in active_tasks.
C37_CancelledMigrationStaysCancelled ==
    /\ [][\A id \in 1..MaxMigrations :
             /\ id \in migration_cancelled =>
                    /\ migration_tasks'[id].status = CANCELLED
                    /\ migration_tasks'[id].pc = "step" =>
                           /\ migration_tasks[id].pc = "step"
                           /\ migration_tasks'[id].step = migration_tasks[id].step
             /\ (cancel_migration(id) /\ id \notin migration_active) =>
                    /\ migration_ret' = "false"
                    /\ UNCHANGED <<migration_tasks, migration_active, migration_completed>>]_vars
    /\ \A id \in 1..MaxMigrations :
          (id \in migration_cancelled) ~>
              (id \in migration_completed /\ migration_tasks[id].status = CANCELLED)
====
